---- MODULE Spec2Model ----
(***************************************************************************)
(* State-machine model of the school attendance tracker (App component):   *)
(* the Attendance Store (classAttendanceData), its localStorage slot, the  *)
(* Edit Session (editingDailyAttendance, isBulkEditing), the selected date *)
(* and the CSV / PDF exporters.                                            *)
(*                                                                         *)
(* A JavaScript object is modelled with its own-key order: a date-map is a *)
(* sequence of entries [date, present, absent] in insertion order.  An ISO *)
(* date string "YYYY-MM-DD" is modelled as the tuple <<YYYY, MM, DD>>, so  *)
(* that the string comparison of Array.prototype.sort is the lexicographic *)
(* comparison of the tuples.                                               *)
(***************************************************************************)
EXTENDS Integers, Sequences, FiniteSets, TLC

VARIABLES
  classAttendanceData,     \* the Attendance Store
  selectedDate,            \* the date cursor, an ISO date
  editingDailyAttendance,  \* the edit buffer: grade -> pending record
  isBulkEditing,           \* the bulk flag
  localStorage,            \* the item 'schoolClassAttendanceData'
  lastWrite,               \* whether the latest setItem succeeded
  uncaught,                \* an exception escaped a handler or the initializer
  tz,                      \* the browser's time zone
  csvOut,                  \* data lines downloaded by the current event
  pdfOut,                  \* drawing saved by the current event
  lastOp,                  \* the handler that ran last
  nEvents,                 \* field edits and save-all clicks so far
  bufferedAt               \* history: grade -> field -> the date selected when the
                           \* buffer entry's field was put

vars == <<classAttendanceData, selectedDate, editingDailyAttendance,
          isBulkEditing, localStorage, lastWrite, uncaught, tz, csvOut,
          pdfOut, lastOp, nEvents, bufferedAt>>

(***************************************************************************)
(* Bounds of the model.                                                    *)
(***************************************************************************)
\* the selected date moves within days 0..MaxDay of the calendar window
MaxDay == 1
\* field edits and save-all clicks in one run
MaxEvents == 2

(***************************************************************************)
(* constants.ts / types.ts                                                 *)
(***************************************************************************)
CLASS_GRADES == <<"6th Grade", "7th Grade", "8th Grade", "9th Grade", "10th Grade">>

GradeSet == {CLASS_GRADES[i] : i \in DOMAIN CLASS_GRADES}

CLASS_STRENGTHS ==
  [g \in GradeSet |->
     CASE g = "6th Grade" -> 19
       [] g = "7th Grade" -> 48
       [] g = "8th Grade" -> 47
       [] g = "9th Grade" -> 56
       [] g = "10th Grade" -> 66]

\* DailyAttendanceRecord
Rec(p, a) == [present |-> p, absent |-> a]

\* one own property of a date-map: key (date) and value (record)
Entry(d, p, a) == [date |-> d, present |-> p, absent |-> a]

(***************************************************************************)
(* Dates.  Day n of the window is the UTC calendar day n days after        *)
(* 2024-03-30; the window crosses a month boundary.  Instants are minutes  *)
(* after 2024-03-30T00:00Z.                                                *)
(***************************************************************************)
MinutesPerDay == 1440

\* Date.prototype.toISOString().split('T')[0] of an instant (minutes, UTC)
FloorDiv(x, n) == x \div n

ToISODate(utcMinutes) ==
  LET n == FloorDiv(utcMinutes, MinutesPerDay)
  IN  IF n <= 1 THEN <<2024, 3, 30 + n>> ELSE <<2024, 4, n - 1>>

\* new Date("YYYY-MM-DD"): a date-only string is midnight UTC of that day
ParseISODate(iso) ==
  LET n == IF iso[2] = 3 THEN iso[3] - 30 ELSE iso[3] + 1
  IN  n * MinutesPerDay

Days == 0..MaxDay

DateOfDay(n) == ToISODate(n * MinutesPerDay)

Dates == {DateOfDay(n) : n \in Days}

\* string comparison of two ISO dates (code-unit order of fixed-width digits)
StrLess(x, y) ==
  \/ x[1] < y[1]
  \/ x[1] = y[1] /\ x[2] < y[2]
  \/ x[1] = y[1] /\ x[2] = y[2] /\ x[3] < y[3]

(***************************************************************************)
(* Time zone of the browser: the offset of local time from UTC in minutes, *)
(* and at most one transition instant from which the offset is shifted.    *)
(***************************************************************************)
\* base: the offset before the transition; dst: whether there is a transition;
\* at: its UTC instant; shift: the change of the offset at the transition
TimeZone(base, dst, at, shift) ==
  [base |-> base, dst |-> dst, at |-> at, shift |-> shift]

\* offset in force at a UTC instant
OffsetAtUTC(zone, utc) ==
  IF zone.dst /\ utc >= zone.at
    THEN zone.base + zone.shift ELSE zone.base

\* UTC instant of a local wall-clock time: a time the transition skips or
\* repeats is read with the offset in force before the transition
LocalToUTC(zone, local) ==
  IF ~zone.dst \/ local - zone.base < zone.at
    THEN local - zone.base
    ELSE IF local - (zone.base + zone.shift) >= zone.at
           THEN local - (zone.base + zone.shift)
           ELSE local - zone.base

\* d = new Date(prevDate); d.setDate(d.getDate() + delta);
\* d.toISOString().split('T')[0]
ShiftDay(zone, prevDate, delta) ==
  LET utc   == ParseISODate(prevDate)
      local == utc + OffsetAtUTC(zone, utc)
  IN  ToISODate(LocalToUTC(zone, local + delta * MinutesPerDay))

(***************************************************************************)
(* JavaScript objects: a grade-keyed object is a function on its key set,  *)
(* a date-map is the sequence of its entries in insertion order.           *)
(***************************************************************************)
\* { ...a, ...b }
Spread(a, b) ==
  [k \in (DOMAIN a) \cup (DOMAIN b) |-> IF k \in DOMAIN b THEN b[k] ELSE a[k]]

HasDate(dateMap, d) == \E i \in DOMAIN dateMap : dateMap[i].date = d

\* dateMap[d] of a date-map that has the key d
AtDate(dateMap, d) ==
  LET i == CHOOSE j \in DOMAIN dateMap : dateMap[j].date = d
  IN  Rec(dateMap[i].present, dateMap[i].absent)

\* data[grade]?.[date] is defined
HasRecord(data, g, d) == g \in DOMAIN data /\ HasDate(data[g], d)

\* data[grade]?.[date] || { present: 0, absent: 0 }
RecordOrZero(data, g, d) ==
  IF HasRecord(data, g, d) THEN AtDate(data[g], d) ELSE Rec(0, 0)

\* { [d]: { present: p, absent: a } }: the spread of the date-map left out
SetDateOnly(dateMap, d, p, a) == <<Entry(d, p, a)>>

\* { ...dateMap, [d]: { present: p, absent: a } }: an existing key keeps its
\* place, a new key is appended
SetDate(dateMap, d, p, a) ==
  IF HasDate(dateMap, d)
    THEN [i \in DOMAIN dateMap |->
            IF dateMap[i].date = d THEN Entry(d, p, a) ELSE dateMap[i]]
    ELSE Append(dateMap, Entry(d, p, a))

INITIAL_CLASS_ATTENDANCE_DATA == [g \in GradeSet |-> <<>>]

(***************************************************************************)
(* Persistence: the localStorage item 'schoolClassAttendanceData'.         *)
(* kind "none": getItem returns null; "garbage": a string JSON.parse       *)
(* rejects; "json": the JSON text of an attendance object, as the sequence *)
(* of its members.                                                         *)
(***************************************************************************)
Item(kind, text) == [kind |-> kind, text |-> text]

NoItem == Item("none", <<>>)

Garbage == Item("garbage", <<>>)

\* JSON.stringify(data): one member per own key, grade keys in key order
RECURSIVE Members(_, _)
Members(data, i) ==
  IF i > Len(CLASS_GRADES) THEN <<>>
  ELSE LET g == CLASS_GRADES[i]
       IN  (IF g \in DOMAIN data
              THEN <<[grade |-> g, dates |-> data[g]]>> ELSE <<>>)
           \o Members(data, i + 1)

JSONstringify(data) == Item("json", Members(data, 1))

\* JSON.parse(text): a repeated key takes its last value
JSONparse(text) ==
  [g \in {text[i].grade : i \in DOMAIN text} |->
     LET last == CHOOSE i \in DOMAIN text :
                   /\ text[i].grade = g
                   /\ \A j \in DOMAIN text : text[j].grade = g => j <= i
     IN  text[last].dates]

\* the initializer returning parsedData without the merge over the default
LoadNoMerge(item) ==
  IF item.kind = "none" THEN [data |-> INITIAL_CLASS_ATTENDANCE_DATA, threw |-> FALSE]
  ELSE IF item.kind = "garbage"
         THEN [data |-> INITIAL_CLASS_ATTENDANCE_DATA, threw |-> FALSE]
         ELSE [data |-> JSONparse(item.text), threw |-> FALSE]

\* the useState initializer (load): the data and whether an exception
\* escaped to the caller
Load(item) ==
  IF item.kind = "none" THEN [data |-> INITIAL_CLASS_ATTENDANCE_DATA, threw |-> FALSE]
  ELSE IF item.kind = "garbage"
         THEN [data |-> INITIAL_CLASS_ATTENDANCE_DATA, threw |-> FALSE]
         ELSE [data |-> Spread(INITIAL_CLASS_ATTENDANCE_DATA, JSONparse(item.text)),
               threw |-> FALSE]

\* the save effect never writing the item
SaveEffectNever(data, old, ok) == old

\* the save effect: setItem either stores the text or throws, and the throw
\* is caught and logged
SaveEffect(data, old, ok) == IF ok THEN JSONstringify(data) ELSE old

(***************************************************************************)
(* The commit operation and the Edit Session handlers, as functions of the *)
(* state they read.                                                        *)
(***************************************************************************)
\* the updater returning { [grade]: updatedGradeAttendance } without ...prevData
CommitDataNoSpread(prevData, grade, date, present, absent) ==
  [k \in {grade} |->
     SetDate(IF grade \in DOMAIN prevData THEN prevData[grade] ELSE <<>>,
             date, present, absent)]

\* the updater of setClassAttendanceData in handleUpdateDailyClassAttendance
CommitData(prevData, grade, date, present, absent) ==
  LET updatedGradeAttendance ==
        SetDate(IF grade \in DOMAIN prevData THEN prevData[grade] ELSE <<>>,
                date, present, absent)
  IN  [k \in (DOMAIN prevData) \cup {grade} |->
         IF k = grade THEN updatedGradeAttendance ELSE prevData[k]]

\* delete newState[grade]
DeleteKey(edits, grade) == [k \in (DOMAIN edits) \ {grade} |-> edits[k]]

\* handleUpdateDailyClassAttendance without the delete of the grade's entry
handleUpdateKeepsEntry(bulk, prevData, edits, grade, date, present, absent) ==
  [data  |-> CommitData(prevData, grade, date, present, absent),
   edits |-> edits]

\* handleUpdateDailyClassAttendance as rendered with the given isBulkEditing:
\* the new Store and the new edit buffer
handleUpdateDailyClassAttendance(bulk, prevData, edits, grade, date, present, absent) ==
  [data  |-> CommitData(prevData, grade, date, present, absent),
   edits |-> IF ~bulk THEN DeleteKey(edits, grade) ELSE edits]

\* an empty object {}
EmptyEdits == [g \in {} |-> Rec(0, 0)]

\* what the user typed into a number field: text that parseInt rejects, or
\* the digits of an integer
Typed(nan, n) == [nan |-> nan, n |-> n]

\* parseInt(e.target.value, 10) || 0
ParseIntOrZero(typed) == IF typed.nan THEN 0 ELSE typed.n

\* the updater of setEditingDailyAttendance in handleEditInputChange
handleEditInputChange(prev, grade, field, value) ==
  LET currentEdit == IF grade \in DOMAIN prev THEN prev[grade] ELSE Rec(0, 0)
      edited == IF field = "present"
                  THEN Rec(value, currentEdit.absent)
                  ELSE Rec(currentEdit.present, value)
  IN  [k \in (DOMAIN prev) \cup {grade} |-> IF k = grade THEN edited ELSE prev[k]]

\* initialBulkEditState of handleBulkEditClick
BulkSeed(data, date) == [g \in GradeSet |-> RecordOrZero(data, g, date)]

\* the CLASS_GRADES.forEach of handleSaveAllClick from grade i on: every
\* grade with a buffer entry is committed to the selected date
RECURSIVE SaveAllFrom(_, _, _, _)
SaveAllFrom(i, data, edits, date) ==
  IF i > Len(CLASS_GRADES) THEN data
  ELSE LET g == CLASS_GRADES[i]
       IN  IF g \in DOMAIN edits
             THEN SaveAllFrom(i + 1,
                    handleUpdateDailyClassAttendance(TRUE, data, edits, g, date,
                        edits[g].present, edits[g].absent).data,
                    edits, date)
             ELSE SaveAllFrom(i + 1, data, edits, date)

SaveAllData(data, edits, date) == SaveAllFrom(1, data, edits, date)

(***************************************************************************)
(* Report exporters.                                                       *)
(***************************************************************************)
\* F(x) with x evaluated before the call, as JavaScript evaluates an argument
CallByValue(F(_), x) == CHOOSE r \in {F(v) : v \in {x}} : TRUE

SeqHas(seq, x) == \E i \in DOMAIN seq : seq[i] = x

\* Object.keys(dateMap).forEach(date => allDates.add(date)) from key j on;
\* a Set keeps the first insertion of a value
RECURSIVE AddKeys(_, _, _)
AddKeys(acc, dateMap, j) ==
  IF j > Len(dateMap) THEN acc
  ELSE CallByValue(LAMBDA next : AddKeys(next, dateMap, j + 1),
                   IF SeqHas(acc, dateMap[j].date) THEN acc
                   ELSE Append(acc, dateMap[j].date))

\* allDates: the dates of every grade's date-map, in insertion order
RECURSIVE AllDatesFrom(_, _, _)
AllDatesFrom(i, acc, data) ==
  IF i > Len(CLASS_GRADES) THEN acc
  ELSE LET g == CLASS_GRADES[i]
       IN  CallByValue(LAMBDA next : AllDatesFrom(i + 1, next, data),
                       IF g \in DOMAIN data THEN AddKeys(acc, data[g], 1) ELSE acc)

AllDates(data) == AllDatesFrom(1, <<>>, data)

\* insert x before the first element of a sorted sequence that is greater
RECURSIVE InsertSorted(_, _)
InsertSorted(sorted, x) ==
  IF sorted = <<>> THEN <<x>>
  ELSE IF StrLess(x, Head(sorted)) THEN <<x>> \o sorted
       ELSE <<Head(sorted)>> \o InsertSorted(Tail(sorted), x)

\* Array.from(allDates) without the sort
SortDatesOmitted(dates) == dates

\* Array.from(allDates).sort(): ascending in string order
RECURSIVE SortDates(_)
SortDates(dates) ==
  IF dates = <<>> THEN <<>>
  ELSE InsertSorted(SortDates(Tail(dates)), Head(dates))

Abs(x) == IF x < 0 THEN -x ELSE x

\* The binary64 value of (count / total) * 100 lies below count * 100 / total
\* when the latter is a tie n.n5 and count / total is one of these fractions
\* (all such fractions of magnitude below 3 with a total below 400).
DoubleBelowTie(count, total) ==
  \E q \in {23, 41, 51, 87, 97, 169, 179, 189, 199} : 80 * Abs(count) = q * total

\* ((count / total) * 100).toFixed(1) with the fraction truncated
PercentTruncated(count, total) ==
  IF total > 0
    THEN (IF count < 0 THEN -1 ELSE 1) * ((1000 * Abs(count)) \div total)
    ELSE 0

\* (total > 0 ? (count / total) * 100 : 0).toFixed(1), in tenths of a percent:
\* the decimal nearest to the binary64 value, the larger one on a tie
PercentTenths(count, total) ==
  IF total > 0
    THEN LET num  == 1000 * Abs(count)
             mag  == IF (2 * num) % (2 * total) = total /\ DoubleBelowTie(count, total)
                       THEN num \div total
                       ELSE (2 * num + total) \div (2 * total)
         IN  IF count < 0 THEN -mag ELSE mag
    ELSE 0

\* one data line of the CSV
CsvRow(date, grade, rec) ==
  [date |-> date, grade |-> grade, strength |-> CLASS_STRENGTHS[grade],
   present |-> rec.present, absent |-> rec.absent,
   presentPct |-> PercentTenths(rec.present, rec.present + rec.absent),
   absentPct  |-> PercentTenths(rec.absent, rec.present + rec.absent)]

\* the CLASS_GRADES.forEach of one date, from grade i on
RECURSIVE CsvDate(_, _, _)
CsvDate(data, date, i) ==
  IF i > Len(CLASS_GRADES) THEN <<>>
  ELSE LET g == CLASS_GRADES[i]
       IN  (IF HasRecord(data, g, date)
              THEN <<CsvRow(date, g, AtDate(data[g], date))>> ELSE <<>>)
           \o CsvDate(data, date, i + 1)

RECURSIVE CsvLines(_, _, _)
CsvLines(data, dates, k) ==
  IF k > Len(dates) THEN <<>>
  ELSE CsvDate(data, dates[k], 1) \o CsvLines(data, dates, k + 1)

\* exportToCsv reading a pending edit in place of the Store's record
CsvRowsOverlay(data) ==
  LET rows == CsvLines(data, SortDates(AllDates(data)), 1)
  IN  [i \in DOMAIN rows |->
         IF rows[i].date = selectedDate /\ rows[i].grade \in DOMAIN editingDailyAttendance
           THEN CsvRow(rows[i].date, rows[i].grade, editingDailyAttendance[rows[i].grade])
           ELSE rows[i]]

\* exportToCsv: the data lines of csvContent after the header line
CsvRows(data) == CsvLines(data, SortDates(AllDates(data)), 1)

(***************************************************************************)
(* exportToPdf: the layout, as the sequence of things drawn, each with the *)
(* page it is drawn on and its y coordinate (mm).                          *)
(***************************************************************************)
margin == 14
pageHeight == 297
rowHeight == 7
headerHeight == 7
titleStep == 10
dateStep == 7
sectionGap == 5
continuedY == 20
firstSectionY == 45

minSpaceForNextDate ==
  titleStep + dateStep + headerHeight + (Len(CLASS_GRADES) * rowHeight) + sectionGap

NoDate == <<0, 0, 0>>

\* rowData of a grade row after the grade label: strength, present, absent
\* and the two percentages (tenths)
RowCells(grade, rec) ==
  <<CLASS_STRENGTHS[grade], rec.present, rec.absent,
    PercentTenths(rec.present, rec.present + rec.absent),
    PercentTenths(rec.absent, rec.present + rec.absent)>>

Drawn(kind, page, y, date, grade, cells) ==
  [kind |-> kind, page |-> page, y |-> y, date |-> date, grade |-> grade,
   cells |-> cells]

\* the drawing position and what has been drawn
Pen(page, y, ops) == [page |-> page, y |-> y, ops |-> ops]

\* doc.addPage(); y = 20; "Daily Attendance Records (Continued)"; y += 10
NewPage(pen) ==
  Pen(pen.page + 1, continuedY + titleStep,
      Append(pen.ops, Drawn("continued", pen.page + 1, continuedY, NoDate, "", <<>>)))

\* the table header: rect and texts at y; y += headerHeight
DrawHeader(pen, date) ==
  Pen(pen.page, pen.y + headerHeight,
      Append(pen.ops, Drawn("header", pen.page, pen.y, date, "", <<>>)))

\* the CLASS_GRADES.forEach of one date's table, from grade i on
RECURSIVE PdfRows(_, _, _, _)
PdfRows(data, date, i, pen) ==
  IF i > Len(CLASS_GRADES) THEN pen
  ELSE LET g == CLASS_GRADES[i]
       IN  IF HasRecord(data, g, date)
             THEN LET at == IF pen.y + rowHeight > pageHeight - margin
                              THEN DrawHeader(NewPage(pen), date)
                              ELSE pen
                  IN  PdfRows(data, date, i + 1,
                              Pen(at.page, at.y + rowHeight,
                                  Append(at.ops, Drawn("row", at.page, at.y, date, g,
                                                    RowCells(g, AtDate(data[g], date))))))
             ELSE PdfRows(data, date, i + 1, pen)

\* the sortedDates.forEach without the page break before a date section
RECURSIVE PdfSectionsNoBreak(_, _, _, _)
PdfSectionsNoBreak(data, dates, k, pen) ==
  IF k > Len(dates) THEN pen
  ELSE LET date  == dates[k]
           title == Pen(pen.page, pen.y + dateStep,
                        Append(pen.ops, Drawn("date", pen.page, pen.y, date, "", <<>>)))
           rows  == PdfRows(data, date, 1, DrawHeader(title, date))
       IN  CallByValue(LAMBDA next : PdfSectionsNoBreak(data, dates, k + 1, next),
                       Pen(rows.page, rows.y + sectionGap, rows.ops))

\* the sortedDates.forEach, from date k on
RECURSIVE PdfSections(_, _, _, _)
PdfSections(data, dates, k, pen) ==
  IF k > Len(dates) THEN pen
  ELSE LET date  == dates[k]
           start == IF pen.y + minSpaceForNextDate > pageHeight - margin
                      THEN NewPage(pen) ELSE pen
           title == Pen(start.page, start.y + dateStep,
                        Append(start.ops, Drawn("date", start.page, start.y, date, "", <<>>)))
           rows  == PdfRows(data, date, 1, DrawHeader(title, date))
       IN  CallByValue(LAMBDA next : PdfSections(data, dates, k + 1, next),
                       Pen(rows.page, rows.y + sectionGap, rows.ops))

\* exportToPdf: everything drawn below the title block
PdfDoc(data) ==
  PdfSections(data, SortDates(AllDates(data)), 1,
              Pen(1, firstSectionY + titleStep,
                  <<Drawn("title", 1, firstSectionY, NoDate, "", <<>>)>>)).ops

(***************************************************************************)
(* Inputs of the model.                                                    *)
(***************************************************************************)
\* a snapshot that lacks three grades, its dates not in ascending order
PartialSnapshot ==
  Item("json",
       <<[grade |-> "6th Grade",
          dates |-> <<Entry(DateOfDay(2), 15, 4), Entry(DateOfDay(0), 19, 0)>>],
         [grade |-> "10th Grade",
          dates |-> <<Entry(DateOfDay(1), 23, 57)>>]>>)

\* what the browser may hold in the item when the App is constructed
PersistedInputs == {NoItem, Garbage, PartialSnapshot}

\* Asia/Kolkata (UTC+05:30, no transition) and Europe/Berlin (UTC+01:00,
\* one hour forward at 2024-03-31T01:00Z)
TimeZones ==
  {TimeZone(330, FALSE, 0, 0), TimeZone(60, TRUE, MinutesPerDay + 60, 60)}

\* texts typed into a number field: not a number, a negative number, and a
\* number above the strength of the 6th grade and within that of the 10th
TypedInputs == {Typed(TRUE, 0), Typed(FALSE, -1), Typed(FALSE, 20)}

\* the rows whose fields are edited: the first and the last grade
EditedGrades == {"6th Grade", "10th Grade"}

Fields == {"present", "absent"}

\* the history of an empty edit buffer
NotBuffered == [g \in {} |-> [f \in Fields |-> NoDate]]

\* the history after handleBulkEditClick: every field put at the date
BufferedAll(date) == [g \in GradeSet |-> [f \in Fields |-> date]]

\* the history after handleEditInputChange: the typed field put at the date,
\* and the defaulted other field too when the grade had no entry
BufferedField(stamps, grade, field, date) ==
  [k \in (DOMAIN stamps) \cup {grade} |->
     IF k # grade THEN stamps[k]
     ELSE IF grade \in DOMAIN stamps
            THEN [f \in Fields |-> IF f = field THEN date ELSE stamps[grade][f]]
            ELSE [f \in Fields |-> date]]

(***************************************************************************)
(* The state after construction: the useState initializers and the first   *)
(* run of the save effect.                                                 *)
(***************************************************************************)
Init ==
  \E item \in PersistedInputs, ok \in BOOLEAN :
    /\ classAttendanceData = Load(item).data
    /\ uncaught = Load(item).threw
    /\ localStorage = SaveEffect(Load(item).data, item, ok)
    /\ lastWrite = ok
    /\ selectedDate \in Dates
    /\ editingDailyAttendance = EmptyEdits
    /\ isBulkEditing = FALSE
    /\ tz \in TimeZones
    /\ csvOut = <<>>
    /\ pdfOut = <<>>
    /\ lastOp = "mount"
    /\ nEvents = 0
    /\ bufferedAt = NotBuffered

NoDownload == csvOut' = <<>> /\ pdfOut' = <<>>

\* goToPreviousDay without the two resets of the Edit Session
goToPreviousDayKeepsEdits ==
  /\ ShiftDay(tz, selectedDate, -1) \in Dates
  /\ selectedDate' = ShiftDay(tz, selectedDate, -1)
  /\ lastOp' = "goToPreviousDay"
  /\ NoDownload
  /\ UNCHANGED <<classAttendanceData, editingDailyAttendance, isBulkEditing,
                 localStorage, lastWrite, uncaught, tz, nEvents, bufferedAt>>

goToPreviousDay ==
  /\ ShiftDay(tz, selectedDate, -1) \in Dates
  /\ selectedDate' = ShiftDay(tz, selectedDate, -1)
  /\ editingDailyAttendance' = EmptyEdits
  /\ bufferedAt' = NotBuffered
  /\ isBulkEditing' = FALSE
  /\ lastOp' = "goToPreviousDay"
  /\ NoDownload
  /\ UNCHANGED <<classAttendanceData, localStorage, lastWrite, uncaught, tz,
                 nEvents>>

\* goToNextDay without the two resets of the Edit Session
goToNextDayKeepsEdits ==
  /\ ShiftDay(tz, selectedDate, 1) \in Dates
  /\ selectedDate' = ShiftDay(tz, selectedDate, 1)
  /\ lastOp' = "goToNextDay"
  /\ NoDownload
  /\ UNCHANGED <<classAttendanceData, editingDailyAttendance, isBulkEditing,
                 localStorage, lastWrite, uncaught, tz, nEvents, bufferedAt>>

goToNextDay ==
  /\ ShiftDay(tz, selectedDate, 1) \in Dates
  /\ selectedDate' = ShiftDay(tz, selectedDate, 1)
  /\ editingDailyAttendance' = EmptyEdits
  /\ bufferedAt' = NotBuffered
  /\ isBulkEditing' = FALSE
  /\ lastOp' = "goToNextDay"
  /\ NoDownload
  /\ UNCHANGED <<classAttendanceData, localStorage, lastWrite, uncaught, tz,
                 nEvents>>

\* the button is rendered while isBulkEditing is false
handleBulkEditClick ==
  /\ ~isBulkEditing
  /\ isBulkEditing' = TRUE
  /\ editingDailyAttendance' = BulkSeed(classAttendanceData, selectedDate)
  /\ bufferedAt' = BufferedAll(selectedDate)
  /\ lastOp' = "handleBulkEditClick"
  /\ NoDownload
  /\ UNCHANGED <<classAttendanceData, selectedDate, localStorage, lastWrite,
                 uncaught, tz, nEvents>>

\* onChange of a present or absent input; the inputs are rendered while
\* isBulkEditing is true
EditField(grade, field, typed) ==
  /\ isBulkEditing
  /\ nEvents < MaxEvents
  /\ editingDailyAttendance' =
       handleEditInputChange(editingDailyAttendance, grade, field,
                             ParseIntOrZero(typed))
  /\ bufferedAt' = BufferedField(bufferedAt, grade, field, selectedDate)
  /\ nEvents' = nEvents + 1
  /\ lastOp' = "handleEditInputChange"
  /\ NoDownload
  /\ UNCHANGED <<classAttendanceData, selectedDate, isBulkEditing, localStorage,
                 lastWrite, uncaught, tz>>

\* the button is rendered while isBulkEditing is true; the Store changes, so
\* the save effect runs after the render
handleSaveAllClick ==
  /\ isBulkEditing
  /\ nEvents < MaxEvents
  /\ classAttendanceData' =
       SaveAllData(classAttendanceData, editingDailyAttendance, selectedDate)
  /\ editingDailyAttendance' = EmptyEdits
  /\ bufferedAt' = NotBuffered
  /\ isBulkEditing' = FALSE
  /\ \E ok \in BOOLEAN :
       /\ localStorage' = SaveEffect(classAttendanceData', localStorage, ok)
       /\ lastWrite' = ok
  /\ nEvents' = nEvents + 1
  /\ lastOp' = "handleSaveAllClick"
  /\ NoDownload
  /\ UNCHANGED <<selectedDate, uncaught, tz>>

handleCancelBulkEditClick ==
  /\ isBulkEditing
  /\ editingDailyAttendance' = EmptyEdits
  /\ bufferedAt' = NotBuffered
  /\ isBulkEditing' = FALSE
  /\ lastOp' = "handleCancelBulkEditClick"
  /\ NoDownload
  /\ UNCHANGED <<classAttendanceData, selectedDate, localStorage, lastWrite,
                 uncaught, tz, nEvents>>

exportToCsv ==
  /\ csvOut' = CsvRows(classAttendanceData)
  /\ pdfOut' = <<>>
  /\ lastOp' = "exportToCsv"
  /\ UNCHANGED <<classAttendanceData, selectedDate, editingDailyAttendance,
                 isBulkEditing, localStorage, lastWrite, uncaught, tz, nEvents,
                 bufferedAt>>

exportToPdf ==
  /\ pdfOut' = PdfDoc(classAttendanceData)
  /\ csvOut' = <<>>
  /\ lastOp' = "exportToPdf"
  /\ UNCHANGED <<classAttendanceData, selectedDate, editingDailyAttendance,
                 isBulkEditing, localStorage, lastWrite, uncaught, tz, nEvents,
                 bufferedAt>>

Next ==
  \/ goToPreviousDay
  \/ goToNextDay
  \/ handleBulkEditClick
  \/ \E g \in EditedGrades, f \in Fields, t \in TypedInputs : EditField(g, f, t)
  \/ handleSaveAllClick
  \/ handleCancelBulkEditClick
  \/ exportToCsv
  \/ exportToPdf

Spec == Init /\ [][Next]_vars

(***************************************************************************)
(* Vocabulary of the properties.                                           *)
(***************************************************************************)
\* the dates that are a key of some grade's date-map
EntryDateSet(data) ==
  UNION {{data[g][i].date : i \in DOMAIN data[g]} : g \in DOMAIN data}

\* a date-map without its entry for date d
OtherDates(dateMap, d) == SelectSeq(dateMap, LAMBDA e : e.date # d)

\* counts handed to the commit operation: in range, and out of range
ProbeCounts == {<<0, 0>>, <<20, -1>>}

\* the Store has just taken its value: only the load and a save-all set it,
\* so every Store the program reaches is the Store of such a state
StoreSet == lastOp \in {"mount", "handleSaveAllClick"}

\* the Store or the selected date has just taken its value: every pair of a
\* Store and a selected date the program reaches is that of such a state
StoreOrDateSet == StoreSet \/ lastOp \in {"goToPreviousDay", "goToNextDay"}

\* this step is a navigation; this step is a save-all
NavStep == lastOp' \in {"goToPreviousDay", "goToNextDay"}

SaveStep == isBulkEditing /\ lastOp' = "handleSaveAllClick"

\* the buffered pair of grade g is what the bulk seed put there
Untouched(g) ==
  editingDailyAttendance[g] = RecordOrZero(classAttendanceData, g, selectedDate)

\* the Store after the step holds the buffered pair of grade g at the selected date
Committed(g) ==
  /\ HasRecord(classAttendanceData', g, selectedDate)
  /\ AtDate(classAttendanceData'[g], selectedDate) = editingDailyAttendance[g]

(***************************************************************************)
(* C1  Commit isolation.  In every reachable Store, committing any counts  *)
(* (p, a) for any grade g and date d gives a Store whose entry (g, d) is   *)
(* {present: p, absent: a}, held once, and in which every other grade's    *)
(* date-map and every other date of g is what it was: no other entry is    *)
(* added, removed or changed.                                              *)
(***************************************************************************)
C1_CommitIsolation ==
  StoreSet =>
    \A g \in GradeSet, d \in Dates \cup EntryDateSet(classAttendanceData),
       c \in ProbeCounts :
      LET old == classAttendanceData
          new == CommitData(old, g, d, c[1], c[2])
      IN  /\ DOMAIN new = (DOMAIN old) \cup {g}
          /\ Cardinality({i \in DOMAIN new[g] : new[g][i].date = d}) = 1
          /\ AtDate(new[g], d) = Rec(c[1], c[2])
          /\ \A g2 \in (DOMAIN old) \ {g} : new[g2] = old[g2]
          /\ \A d2 \in (EntryDateSet(old) \cup EntryDateSet(new)) \ {d} :
               /\ HasRecord(new, g, d2) <=> HasRecord(old, g, d2)
               /\ HasRecord(old, g, d2) => AtDate(new[g], d2) = AtDate(old[g], d2)

\* a save-all has committed all five grades on the selected date into a Store
\* that also holds a record on another date
C1_Witness ==
  /\ lastOp = "handleSaveAllClick"
  /\ \A g \in GradeSet : HasRecord(classAttendanceData, g, selectedDate)
  /\ \E g \in GradeSet, d \in EntryDateSet(classAttendanceData) :
       d # selectedDate /\ HasRecord(classAttendanceData, g, d)

(***************************************************************************)
(* C2  Bulk save, as claimed.  A save-all after a bulk edit that touched   *)
(* one grade A only leaves A's edited values at (A, selected date) and     *)
(* leaves the date-map of every other grade exactly as it was.             *)
(***************************************************************************)
C2_BulkSaveAsClaimed ==
  [][SaveStep =>
       \A A \in GradeSet :
         (\A g \in GradeSet \ {A} : Untouched(g)) =>
           /\ Committed(A)
           /\ \A g \in GradeSet \ {A} :
                classAttendanceData'[g] = classAttendanceData[g]]_vars

(***************************************************************************)
(* C2  Bulk save, amended.  A save-all after a bulk edit that touched one  *)
(* grade A only leaves A's edited values at (A, selected date); for every  *)
(* other grade the record on the selected date is the one it had, or a     *)
(* new {0, 0} record where it had none; every grade's entries on all other *)
(* dates are unchanged, and no grade key is added or removed.              *)
(***************************************************************************)
C2_BulkSave ==
  [][SaveStep =>
       /\ DOMAIN classAttendanceData' = DOMAIN classAttendanceData
       /\ \A g \in GradeSet :
            OtherDates(classAttendanceData'[g], selectedDate)
              = OtherDates(classAttendanceData[g], selectedDate)
       /\ \A A \in GradeSet :
            (\A g \in GradeSet \ {A} : Untouched(g)) =>
              /\ Committed(A)
              /\ \A g \in GradeSet \ {A} :
                   /\ HasRecord(classAttendanceData', g, selectedDate)
                   /\ AtDate(classAttendanceData'[g], selectedDate)
                        = RecordOrZero(classAttendanceData, g, selectedDate)]_vars

\* after one field edit and a save-all, exactly one grade holds a typed value
\* on the selected date and the Store holds a record on another date
C2_Witness ==
  /\ lastOp = "handleSaveAllClick"
  /\ nEvents = 2
  /\ \E A \in EditedGrades :
       /\ HasRecord(classAttendanceData, A, selectedDate)
       /\ LET r == AtDate(classAttendanceData[A], selectedDate)
          IN  r.present \in {20, -1} \/ r.absent \in {20, -1}
       /\ \A g \in GradeSet \ {A} :
            /\ HasRecord(classAttendanceData, g, selectedDate)
            /\ LET r == AtDate(classAttendanceData[g], selectedDate)
               IN  r.present \notin {20, -1} /\ r.absent \notin {20, -1}
  /\ \E d \in EntryDateSet(classAttendanceData) : d # selectedDate

(***************************************************************************)
(* C3  Navigation discards edits.  goToPreviousDay and goToNextDay leave   *)
(* the session Idle (bulk flag false, buffer empty) and the Store and its  *)
(* persisted item unchanged; and whenever the Store changes, it is in bulk *)
(* mode, only at the date selected then, and every record written is the   *)
(* pair the buffer holds then - so pairs a navigation has discarded are    *)
(* written by no later step.                                               *)
(***************************************************************************)
C3_NavigationDiscards ==
  [][/\ NavStep =>
          /\ editingDailyAttendance' = EmptyEdits
          /\ isBulkEditing' = FALSE
          /\ classAttendanceData' = classAttendanceData
          /\ localStorage' = localStorage
     /\ classAttendanceData' # classAttendanceData =>
          /\ isBulkEditing
          /\ selectedDate' = selectedDate
          /\ \A g \in GradeSet, d \in EntryDateSet(classAttendanceData') :
               (/\ HasRecord(classAttendanceData', g, d)
                /\ \/ ~HasRecord(classAttendanceData, g, d)
                   \/ AtDate(classAttendanceData'[g], d)
                        # AtDate(classAttendanceData[g], d))
               => /\ d = selectedDate
                  /\ g \in DOMAIN editingDailyAttendance
                  /\ AtDate(classAttendanceData'[g], d) = editingDailyAttendance[g]]_vars

\* a navigation has run after a field edit that no save-all committed
C3_Witness ==
  /\ lastOp \in {"goToPreviousDay", "goToNextDay"}
  /\ nEvents >= 1
  /\ \E g \in GradeSet : classAttendanceData[g] = <<>>
  /\ editingDailyAttendance = EmptyEdits
  /\ ~isBulkEditing

(***************************************************************************)
(* C4  Clamping invariant, as claimed.  Every Daily Record in the Store    *)
(* for grade g has 0 <= present <= ClassStrength[g] and                    *)
(* 0 <= absent <= ClassStrength[g].                                        *)
(***************************************************************************)
C4_ClampingAsClaimed ==
  \A g \in GradeSet \cap DOMAIN classAttendanceData :
    \A i \in DOMAIN classAttendanceData[g] :
      LET e == classAttendanceData[g][i]
      IN  /\ 0 <= e.present /\ e.present <= CLASS_STRENGTHS[g]
          /\ 0 <= e.absent /\ e.absent <= CLASS_STRENGTHS[g]

(***************************************************************************)
(* C5  Grade-key invariant.  In every reachable state each of the five     *)
(* grades is a key of the Store and maps to a date-map (entries with       *)
(* distinct dates and integer counts, possibly none), also right after a   *)
(* load that found no item, an unparseable item or a snapshot lacking      *)
(* grades; and no exception has escaped the load.                          *)
(***************************************************************************)
C5_GradeKeys ==
  /\ GradeSet \subseteq DOMAIN classAttendanceData
  /\ \A g \in GradeSet :
       LET m == classAttendanceData[g]
       IN  /\ DOMAIN m = 1..Len(m)
           /\ \A i \in DOMAIN m : m[i].present \in Int /\ m[i].absent \in Int
           /\ \A i, j \in DOMAIN m : m[i].date = m[j].date => i = j
  /\ uncaught = FALSE

\* right after a load of a snapshot that lacks grades (the first write having
\* failed, the item still holds it): the missing grades map to empty date-maps
C5_Witness ==
  /\ lastOp = "mount"
  /\ localStorage = PartialSnapshot
  /\ classAttendanceData["7th Grade"] = <<>>
  /\ classAttendanceData["6th Grade"] # <<>>

(***************************************************************************)
(* C6  Persistence round-trip.  Whenever the latest write of the item      *)
(* succeeded, loading the item gives exactly the in-memory Store, without  *)
(* an exception; when the write after a save-all failed, the in-memory     *)
(* Store still holds the committed records; no exception ever escapes.     *)
(***************************************************************************)
C6_RoundTrip ==
  /\ lastWrite =>
       /\ Load(localStorage).data = classAttendanceData
       /\ Load(localStorage).threw = FALSE
  /\ (lastOp = "handleSaveAllClick" /\ ~lastWrite) =>
       \A g \in GradeSet : HasRecord(classAttendanceData, g, selectedDate)
  /\ uncaught = FALSE

\* a save-all whose write succeeded, on a Store where a grade has records on
\* two dates
C6_Witness ==
  /\ lastOp = "handleSaveAllClick"
  /\ lastWrite
  /\ localStorage.kind = "json"
  /\ \E g \in GradeSet : Len(classAttendanceData[g]) >= 2

(***************************************************************************)
(* C7  Only the commit writes the Store.  A navigation, a field edit,      *)
(* entering or cancelling bulk mode and either export leave the Store and  *)
(* its persisted item unchanged; the exports also leave the edit buffer,   *)
(* the bulk flag and the selected date unchanged, and what they emit is    *)
(* one row per record of the Store carrying that record's counts, whatever *)
(* the buffer and the selected date are.                                   *)
(***************************************************************************)
RecordSet(data) ==
  UNION {{<<g, data[g][i].date>> : i \in DOMAIN data[g]} : g \in DOMAIN data}

PdfRowsOf(ops) == SelectSeq(ops, LAMBDA o : o.kind = "row")

C7_OnlyCommitWrites ==
  [][/\ lastOp' # "handleSaveAllClick" =>
          /\ classAttendanceData' = classAttendanceData
          /\ localStorage' = localStorage
     /\ lastOp' \in {"exportToCsv", "exportToPdf"} =>
          /\ editingDailyAttendance' = editingDailyAttendance
          /\ isBulkEditing' = isBulkEditing
          /\ selectedDate' = selectedDate
     /\ lastOp' = "exportToCsv" =>
          /\ Len(csvOut') = Cardinality(RecordSet(classAttendanceData))
          /\ \A i \in DOMAIN csvOut' :
               /\ HasRecord(classAttendanceData, csvOut'[i].grade, csvOut'[i].date)
               /\ Rec(csvOut'[i].present, csvOut'[i].absent)
                    = AtDate(classAttendanceData[csvOut'[i].grade], csvOut'[i].date)
     /\ lastOp' = "exportToPdf" =>
          LET rows == PdfRowsOf(pdfOut')
          IN  /\ Len(rows) = Cardinality(RecordSet(classAttendanceData))
              /\ \A i \in DOMAIN rows :
                   /\ HasRecord(classAttendanceData, rows[i].grade, rows[i].date)
                   /\ Rec(rows[i].cells[2], rows[i].cells[3])
                        = AtDate(classAttendanceData[rows[i].grade], rows[i].date)]_vars

\* a CSV export in bulk mode while the buffer of a recorded grade differs
\* from its record on the selected date
C7_Witness ==
  /\ lastOp = "exportToCsv"
  /\ isBulkEditing
  /\ csvOut # <<>>
  /\ \E g \in GradeSet :
       /\ HasRecord(classAttendanceData, g, selectedDate)
       /\ editingDailyAttendance[g] # AtDate(classAttendanceData[g], selectedDate)

(***************************************************************************)
(* C8  CSV row set and order.  The CSV export emits exactly one data row   *)
(* for each (date, grade) that has a record and none for any other pair;   *)
(* the rows are in ascending date order and, within one date, in the order *)
(* of the grade enumeration, whatever the insertion order of the records.  *)
(***************************************************************************)
GradeIndex(g) == CHOOSE i \in DOMAIN CLASS_GRADES : CLASS_GRADES[i] = g

C8_CsvRowOrder ==
  lastOp = "exportToCsv" =>
    /\ \A i \in DOMAIN csvOut :
         HasRecord(classAttendanceData, csvOut[i].grade, csvOut[i].date)
    /\ \A r \in RecordSet(classAttendanceData) :
         Cardinality({i \in DOMAIN csvOut :
                        csvOut[i].grade = r[1] /\ csvOut[i].date = r[2]}) = 1
    /\ \A i, j \in DOMAIN csvOut :
         i < j =>
           \/ StrLess(csvOut[i].date, csvOut[j].date)
           \/ /\ csvOut[i].date = csvOut[j].date
              /\ GradeIndex(csvOut[i].grade) < GradeIndex(csvOut[j].grade)

\* a CSV export of a Store in which a grade's dates were inserted in
\* descending order
C8_Witness ==
  /\ lastOp = "exportToCsv"
  /\ Len(csvOut) >= 3
  /\ \E g \in GradeSet :
       \E i, j \in DOMAIN classAttendanceData[g] :
         i < j /\ StrLess(classAttendanceData[g][j].date, classAttendanceData[g][i].date)

(***************************************************************************)
(* C9  Percentages.  In every exported row with present + absent > 0 each  *)
(* percentage is count / (present + absent) * 100 to the nearest tenth     *)
(* (off by at most 0.05); with present + absent = 0 both are 0.0; present  *)
(* 15, absent 4 gives 78.9 and 21.1.                                       *)
(***************************************************************************)
NearestTenth(tenths, count, total) == 2 * Abs(tenths * total - 1000 * count) <= total

C9_Percentages ==
  lastOp = "exportToCsv" =>
    \A i \in DOMAIN csvOut :
      LET r == csvOut[i]
          total == r.present + r.absent
      IN  /\ total > 0 =>
               /\ NearestTenth(r.presentPct, r.present, total)
               /\ NearestTenth(r.absentPct, r.absent, total)
          /\ total = 0 => r.presentPct = 0 /\ r.absentPct = 0
          /\ (r.present = 15 /\ r.absent = 4) =>
               r.presentPct = 789 /\ r.absentPct = 211

\* a CSV export with the row 15 / 4 and a row of a 0 / 0 record
C9_Witness ==
  /\ lastOp = "exportToCsv"
  /\ \E i \in DOMAIN csvOut :
       /\ csvOut[i].present = 15 /\ csvOut[i].absent = 4
       /\ csvOut[i].presentPct = 789 /\ csvOut[i].absentPct = 211
  /\ \E i \in DOMAIN csvOut :
       /\ csvOut[i].present = 0 /\ csvOut[i].absent = 0
       /\ csvOut[i].presentPct = 0 /\ csvOut[i].absentPct = 0

(***************************************************************************)
(* C10  Field edit semantics, as claimed.  A field edit on grade g sets    *)
(* the named field of g's buffered pair to the value, leaves every other   *)
(* grade's buffer entry as it is, and leaves the other field of g as it is *)
(* - or, when g has no buffer entry, takes it from the Store's record for  *)
(* (g, selected date), zero if there is none.                              *)
(***************************************************************************)
OtherField(f) == IF f = "present" THEN "absent" ELSE "present"

C10_FieldEditAsClaimed ==
  \A g \in GradeSet, f \in Fields, t \in TypedInputs :
    LET prev == editingDailyAttendance
        new  == handleEditInputChange(prev, g, f, ParseIntOrZero(t))
    IN  /\ DOMAIN new = (DOMAIN prev) \cup {g}
        /\ new[g][f] = ParseIntOrZero(t)
        /\ \A g2 \in (DOMAIN prev) \ {g} : new[g2] = prev[g2]
        /\ new[g][OtherField(f)] =
             IF g \in DOMAIN prev
               THEN prev[g][OtherField(f)]
               ELSE RecordOrZero(classAttendanceData, g, selectedDate)[OtherField(f)]

(***************************************************************************)
(* A per-row session outside bulk mode, built from the handlers: field     *)
(* edits of grades g1 and g2 on the current buffer, then the commit of g1  *)
(* with its buffered pair on the selected date.                            *)
(***************************************************************************)
RowEdits(g1, g2, f, v) ==
  handleEditInputChange(
    handleEditInputChange(editingDailyAttendance, g1, f, v), g2, f, v)

RowCommit(g1, g2, f, v) ==
  LET edits == RowEdits(g1, g2, f, v)
  IN  handleUpdateDailyClassAttendance(isBulkEditing, classAttendanceData, edits,
        g1, selectedDate, edits[g1].present, edits[g1].absent)

(***************************************************************************)
(* C11  Edit Session discarded after commit, as claimed.  After a bulk     *)
(* save-all, and after a per-row commit of one grade outside bulk mode     *)
(* (other grades possibly pending), the buffer is empty and the bulk flag  *)
(* is false.                                                               *)
(***************************************************************************)
C11_DiscardedAsClaimed ==
  /\ lastOp = "handleSaveAllClick" =>
       editingDailyAttendance = EmptyEdits /\ ~isBulkEditing
  /\ ~isBulkEditing =>
       \A g1, g2 \in GradeSet, f \in Fields, t \in TypedInputs :
         RowCommit(g1, g2, f, ParseIntOrZero(t)).edits = EmptyEdits

(***************************************************************************)
(* C11  Edit Session after commit, amended.  After a bulk save-all the     *)
(* buffer is empty and the bulk flag is false.  A per-row commit of grade  *)
(* g outside bulk mode writes g's pair to the Store and removes g's entry  *)
(* only: every other grade's pending entry stays, so the buffer is empty   *)
(* exactly when no other grade was pending.                                *)
(***************************************************************************)
C11_Discarded ==
  /\ lastOp = "handleSaveAllClick" =>
       editingDailyAttendance = EmptyEdits /\ ~isBulkEditing
  /\ ~isBulkEditing /\ StoreOrDateSet =>
       \A g1, g2 \in GradeSet, f \in Fields, t \in TypedInputs :
         LET edits == RowEdits(g1, g2, f, ParseIntOrZero(t))
             after == RowCommit(g1, g2, f, ParseIntOrZero(t))
         IN  /\ DOMAIN after.edits = (DOMAIN edits) \ {g1}
             /\ \A g \in DOMAIN after.edits : after.edits[g] = edits[g]
             /\ after.edits = EmptyEdits <=> DOMAIN edits = {g1}
             /\ AtDate(after.data[g1], selectedDate) = edits[g1]

\* a save-all has committed a typed value and left the session Idle
C11_Witness ==
  /\ lastOp = "handleSaveAllClick"
  /\ editingDailyAttendance = EmptyEdits
  /\ ~isBulkEditing
  /\ \E g \in EditedGrades :
       /\ HasRecord(classAttendanceData, g, selectedDate)
       /\ AtDate(classAttendanceData[g], selectedDate).present = 20

(***************************************************************************)
(* C12  Date cursor step, as claimed.  In every time zone goToNextDay sets *)
(* the selected date to the next calendar day and goToPreviousDay to the   *)
(* previous one, and next followed by previous returns the original date.  *)
(***************************************************************************)
\* the calendar day delta days after an ISO date
CalendarDay(iso, delta) == ToISODate(ParseISODate(iso) + delta * MinutesPerDay)

C12_DateStepAsClaimed ==
  [][/\ lastOp' = "goToNextDay" => selectedDate' = CalendarDay(selectedDate, 1)
     /\ lastOp' = "goToPreviousDay" => selectedDate' = CalendarDay(selectedDate, -1)
     /\ ShiftDay(tz, ShiftDay(tz, selectedDate, 1), -1) = selectedDate]_vars

(***************************************************************************)
(* The PDF exporter over Stores of many dates: the Store is what the load  *)
(* makes of a persisted snapshot, and the export button is clicked.        *)
(***************************************************************************)
\* the number of dates a persisted snapshot holds at most
PdfMaxDates == 6

\* the grades that have a record on one date: all of them, the first only,
\* or the second and the last
PdfShapes == {GradeSet, {"6th Grade"}, {"7th Grade", "10th Grade"}}

\* the date-map of grade g in a snapshot whose k-th date has the records of
\* the grades shape[k]
RECURSIVE PdfEntries(_, _, _)
PdfEntries(shape, g, k) ==
  IF k > Len(shape) THEN <<>>
  ELSE (IF g \in shape[k]
          THEN <<Entry(DateOfDay(k - 1), CLASS_STRENGTHS[g], 0)>> ELSE <<>>)
       \o PdfEntries(shape, g, k + 1)

PdfSnapshot(shape) ==
  Item("json",
       [i \in 1..Len(CLASS_GRADES) |->
          [grade |-> CLASS_GRADES[i], dates |-> PdfEntries(shape, CLASS_GRADES[i], 1)]])

InitPdf ==
  \E n \in 0..PdfMaxDates :
    \E shape \in [1..n -> PdfShapes] :
      /\ classAttendanceData = Load(PdfSnapshot(shape)).data
      /\ uncaught = Load(PdfSnapshot(shape)).threw
      /\ localStorage = SaveEffect(Load(PdfSnapshot(shape)).data, PdfSnapshot(shape), TRUE)
      /\ lastWrite = TRUE
      /\ selectedDate = DateOfDay(0)
      /\ editingDailyAttendance = EmptyEdits
      /\ isBulkEditing = FALSE
      /\ tz \in TimeZones
      /\ csvOut = <<>>
      /\ pdfOut = <<>>
      /\ lastOp = "mount"
      /\ nEvents = 0
      /\ bufferedAt = NotBuffered

NextPdf == exportToPdf

SpecPdf == InitPdf /\ [][NextPdf]_vars

\* where y stands after a thing is drawn
PenAfter(op) ==
  op.y + (CASE op.kind = "title" -> titleStep
            [] op.kind = "continued" -> titleStep
            [] op.kind = "date" -> dateStep
            [] op.kind = "header" -> headerHeight
            [] op.kind = "row" -> rowHeight)

\* where y stands when the next date section begins after op
PenAfterSection(op) ==
  PenAfter(op) + (IF op.kind \in {"row", "header"} THEN sectionGap ELSE 0)

(***************************************************************************)
(* C13  Paginated export page bounds.  Every grade row the PDF exporter    *)
(* draws ends at or above the bottom margin; every row has a table header  *)
(* above it on its page; a date section starts on a new page exactly when  *)
(* y + minSpaceForNextDate exceeds pageHeight - margin, and a row exactly  *)
(* when y + rowHeight exceeds it.                                          *)
(***************************************************************************)
C13_PageBounds ==
  lastOp = "exportToPdf" =>
    \A i \in DOMAIN pdfOut :
      /\ pdfOut[i].kind = "row" =>
           /\ pdfOut[i].y + rowHeight <= pageHeight - margin
           /\ \E j \in 1..(i - 1) :
                /\ pdfOut[j].kind = "header"
                /\ pdfOut[j].page = pdfOut[i].page
                /\ pdfOut[j].y + headerHeight <= pdfOut[i].y
           /\ LET broke == pdfOut[i - 1].kind = "header"
                            /\ pdfOut[i - 2].kind = "continued"
                  prev  == pdfOut[IF broke THEN i - 3 ELSE i - 1]
              IN  /\ broke <=> PenAfter(prev) + rowHeight > pageHeight - margin
                  /\ broke => pdfOut[i].page = prev.page + 1
                  /\ ~broke => pdfOut[i].page = prev.page /\ pdfOut[i].y = PenAfter(prev)
      /\ pdfOut[i].kind = "date" =>
           LET broke == pdfOut[i - 1].kind = "continued"
               prev  == pdfOut[IF broke THEN i - 2 ELSE i - 1]
           IN  /\ broke <=>
                    PenAfterSection(prev) + minSpaceForNextDate > pageHeight - margin
               /\ broke => pdfOut[i].page = prev.page + 1
               /\ ~broke =>
                    pdfOut[i].page = prev.page /\ pdfOut[i].y = PenAfterSection(prev)

\* a document whose rows lie on two pages has been exported
C13_Witness ==
  /\ lastOp = "exportToPdf"
  /\ \E i, j \in DOMAIN pdfOut :
       /\ pdfOut[i].kind = "row" /\ pdfOut[i].page = 1
       /\ pdfOut[j].kind = "row" /\ pdfOut[j].page = 2

(***************************************************************************)
(* C14  No cross-date leakage.  In every interleaving of field edits, bulk *)
(* entry, cancel, save-all and date navigation, a record written to Store  *)
(* entry (g, d) is the buffer entry of g, and both of its fields were put  *)
(* in the buffer while d was the selected date; no step writes an entry of *)
(* any other date.                                                         *)
(***************************************************************************)
\* the step changes or creates the Store entry (g, d)
Written(g, d) ==
  /\ HasRecord(classAttendanceData', g, d)
  /\ \/ ~HasRecord(classAttendanceData, g, d)
     \/ AtDate(classAttendanceData'[g], d) # AtDate(classAttendanceData[g], d)

\* the buffer entry of g was put, field by field, while d was selected
BufferedWhile(g, d) ==
  /\ g \in DOMAIN editingDailyAttendance
  /\ g \in DOMAIN bufferedAt
  /\ \A f \in Fields : bufferedAt[g][f] = d

C14_NoCrossDateLeak ==
  [][/\ \A g \in GradeSet, d \in EntryDateSet(classAttendanceData') :
          Written(g, d) =>
            /\ BufferedWhile(g, d)
            /\ AtDate(classAttendanceData'[g], d) = editingDailyAttendance[g]
     /\ lastOp' = "handleSaveAllClick" =>
          \A g \in DOMAIN editingDailyAttendance :
            /\ BufferedWhile(g, selectedDate)
            /\ AtDate(classAttendanceData'[g], selectedDate) = editingDailyAttendance[g]]_vars

\* an edit typed on the selected date has been saved there, next to a
\* different record of the same grade on another date
C14_Witness ==
  /\ lastOp = "handleSaveAllClick"
  /\ \E g \in EditedGrades, d \in Dates \ {selectedDate} :
       /\ HasRecord(classAttendanceData, g, selectedDate)
       /\ AtDate(classAttendanceData[g], selectedDate).present = 20
       /\ HasRecord(classAttendanceData, g, d)
       /\ AtDate(classAttendanceData[g], d).present # 20

====
